---- MODULE Spec2Model ----
(***************************************************************************)
(* Prompt-optimization pipeline (strict mode, optimize_prompt), its        *)
(* analyzers and the external-call invoker of pipeline/llm_interface.py.   *)
(* Texts are TLA+ strings; Python's str operations are defined character   *)
(* by character on them.                                                   *)
(***************************************************************************)
EXTENDS Integers, Sequences, FiniteSets, TLC

(***************************************************************************)
(* Bounds of the model.                                                    *)
(***************************************************************************)
\* a request is at most MaxFrags fragments of Fragments joined by blanks
MaxFrags == 2

\* the number of calls issued concurrently
NumCalls == 4

\* a text given to the intent classifier is at most MaxIntentFrags fragments
\* of IntentFragments joined by blanks
MaxIntentFrags == 2

(***************************************************************************)
(* Python str operations.                                                  *)
(***************************************************************************)
UpperChars == "ABCDEFGHIJKLMNOPQRSTUVWXYZ"
LowerChars == "abcdefghijklmnopqrstuvwxyz"

CharAt(s, i) == SubSeq(s, i, i)

\* c.isupper() for a single ASCII character
isupper(c) == \E i \in 1..Len(UpperChars) : CharAt(UpperChars, i) = c

LowerChar(c) ==
    IF isupper(c)
    THEN CharAt(LowerChars, CHOOSE i \in 1..Len(UpperChars) : CharAt(UpperChars, i) = c)
    ELSE c

\* s.lower()
RECURSIVE lower(_)
lower(s) ==
    IF s = "" THEN ""
    ELSE LowerChar(CharAt(s, 1)) \o lower(SubSeq(s, 2, Len(s)))

\* needle in hay (substring test)
Contains(needle, hay) ==
    \E i \in 1..(Len(hay) - Len(needle) + 1) :
        SubSeq(hay, i, i + Len(needle) - 1) = needle

\* any(k in text for k in keys), keys a sequence of strings
AnyIn(keys, text) == \E k \in 1..Len(keys) : Contains(keys[k], text)

IsSpace(c) == c \in {" ", "\n", "\t", "\r"}

\* len(s.split()): the number of maximal runs of non-whitespace characters
WordCount(s) ==
    Cardinality({i \in 1..Len(s) :
        /\ ~IsSpace(CharAt(s, i))
        /\ (i = 1 \/ IsSpace(CharAt(s, i - 1)))})

startswith(s, p) == Len(s) >= Len(p) /\ SubSeq(s, 1, Len(p)) = p

endswith(s, p) == Len(s) >= Len(p) /\ SubSeq(s, Len(s) - Len(p) + 1, Len(s)) = p

\* s.strip()
RECURSIVE lstrip(_)
lstrip(s) ==
    IF s # "" /\ IsSpace(CharAt(s, 1)) THEN lstrip(SubSeq(s, 2, Len(s))) ELSE s

RECURSIVE rstrip(_)
rstrip(s) ==
    IF s # "" /\ IsSpace(CharAt(s, Len(s))) THEN rstrip(SubSeq(s, 1, Len(s) - 1)) ELSE s

strip(s) == rstrip(lstrip(s))

Min(a, b) == IF a < b THEN a ELSE b

(***************************************************************************)
(* scoring_engine.score_prompt                                             *)
(***************************************************************************)
action_verbs == <<"explain", "compare", "build", "analyze", "write">>
vague_words == <<"something", "stuff", "things">>
technical_words == <<"python", "algorithm", "neural", "database", "model">>
constraint_words == <<"step", "example", "code", "table">>
punctuation_marks == <<"?", ".", ":">>
formatting_words == <<"list", "table", "bullet", "step">>

clarity_score(prompt) ==
    LET lower_prompt == lower(prompt)
        word_count == WordCount(prompt)
        c1 == IF word_count > 5 THEN 2 ELSE 0
        c2 == IF AnyIn(action_verbs, lower_prompt) THEN 2 ELSE 0
        c3 == IF ~AnyIn(vague_words, lower_prompt) THEN 1 ELSE 0
    IN  Min(c1 + c2 + c3, 5)

specificity_score(prompt) ==
    LET lower_prompt == lower(prompt)
        word_count == WordCount(prompt)
        s1 == IF AnyIn(technical_words, lower_prompt) THEN 2 ELSE 0
        s2 == IF AnyIn(constraint_words, lower_prompt) THEN 2 ELSE 0
        s3 == IF word_count > 8 THEN 1 ELSE 0
    IN  Min(s1 + s2 + s3, 5)

structure_score(prompt) ==
    LET lower_prompt == lower(prompt)
        t1 == IF AnyIn(punctuation_marks, prompt) THEN 2 ELSE 0
        t2 == IF AnyIn(formatting_words, lower_prompt) THEN 2 ELSE 0
        t3 == IF prompt # "" /\ isupper(CharAt(prompt, 1)) THEN 1 ELSE 0
    IN  Min(t1 + t2 + t3, 5)

\* score_prompt with the structure score left out of the total
score_prompt_partial(prompt) ==
    LET clarity == clarity_score(prompt)
        specificity == specificity_score(prompt)
        structure == structure_score(prompt)
    IN  [clarity |-> clarity,
         specificity |-> specificity,
         structure |-> structure,
         total_score |-> clarity + specificity]

score_prompt(prompt) ==
    LET clarity == clarity_score(prompt)
        specificity == specificity_score(prompt)
        structure == structure_score(prompt)
    IN  [clarity |-> clarity,
         specificity |-> specificity,
         structure |-> structure,
         total_score |-> clarity + specificity + structure]

(***************************************************************************)
(* llm_interface: the external model and call_gemini                       *)
(***************************************************************************)
MAX_CONCURRENT_REQUESTS == 3
max_retries == 3

\* str(e) of the failures model.generate_content can raise
ErrorTexts ==
    {"429 Too Many Requests",
     "Quota exceeded: RESOURCE_EXHAUSTED",
     "500 Internal error",
     "403 Permission denied"}

\* one outcome of model.generate_content(prompt): a response text or a failure
Ok(text) == [ok |-> TRUE, text |-> text]
Err(text) == [ok |-> FALSE, text |-> text]

\* "429" in str(e) or "RESOURCE_EXHAUSTED" in str(e)
IsThrottle(e) == Contains("429", e) \/ Contains("RESOURCE_EXHAUSTED", e)

\* a variant with a wait that grows by a fixed step
wait_time_linear(att) == (2 * att) + 1

\* (2 ** attempt) + 1
wait_time(att) == (2 ^ att) + 1

\* what a function call ends with: a returned value or a raised exception
Return(v) == [kind |-> "return", value |-> v]
Raise(type, text) == [kind |-> "raise", value |-> [type |-> type, text |-> text]]

NoKeyError == Raise("ValueError", "GEMINI_API_KEY not set in environment variables.")

\* _get_model succeeds: the cached client, or a new one when the key is configured
get_model_ok(client, key_set) == client # "None" \/ key_set

\* the global _model after _get_model
get_model(client, key_set) ==
    IF client = "None" /\ key_set THEN "GenerativeModel" ELSE client

\* a variant that backs off and retries after any failure
after_attempt_retry_any(att, o) ==
    IF o.ok THEN [pc |-> "returned", out |-> Return(o.text)]
    ELSE IF att < max_retries
         THEN [pc |-> "sleep", out |-> Return("")]
         ELSE [pc |-> "raised", out |-> Raise("APIError", o.text)]

\* a variant that replaces the failure of the final attempt by one of its own
after_attempt_wrapped(att, o) ==
    IF o.ok THEN [pc |-> "returned", out |-> Return(o.text)]
    ELSE IF att < max_retries /\ IsThrottle(o.text)
         THEN [pc |-> "sleep", out |-> Return("")]
         ELSE IF att = max_retries
              THEN [pc |-> "raised", out |-> Raise("ServiceError", "retries exhausted")]
              ELSE [pc |-> "raised", out |-> Raise("APIError", o.text)]

\* control state of call_gemini after generate_content, called as attempt
\* number att (0-based; attempt max_retries is the one after the loop), has
\* ended with outcome o
after_attempt(att, o) ==
    IF o.ok THEN [pc |-> "returned", out |-> Return(o.text)]
    ELSE IF att < max_retries /\ IsThrottle(o.text)
         THEN [pc |-> "sleep", out |-> Return("")]
         ELSE [pc |-> "raised", out |-> Raise("APIError", o.text)]

\* call_gemini run to its end on the outcomes outs[1..max_retries+1] of the
\* successive generate_content calls (those after the last one made are unused):
\* the loop goes on while the attempts end in a sleep, and the first attempt
\* that does not decides the call
attempt_loop(outs) ==
    LET last == CHOOSE a \in 0..max_retries :
                    /\ after_attempt(a, outs[a + 1]).pc # "sleep"
                    /\ \A b \in 0..(a - 1) : after_attempt(b, outs[b + 1]).pc = "sleep"
    IN  after_attempt(last, outs[last + 1]).out

call_gemini(outs, client, key_set) ==
    IF ~get_model_ok(client, key_set) THEN NoKeyError ELSE attempt_loop(outs)

(***************************************************************************)
(* llm_interface.call_gemini_json: fence stripping and json.loads          *)
(***************************************************************************)
\* The JSON documents the external model is taken to answer with, each with
\* the value json.loads gives for it (a dict is a function on its keys, a
\* list a sequence); json.loads fails on every other text.
JsonDocuments ==
    << <<"{\"needs_context\": true, \"reason\": \"refers to earlier text\"}",
         [needs_context |-> TRUE, reason |-> "refers to earlier text"]>>,
       <<"{\"needs_context\": false, \"reason\": \"self-contained\"}",
         [needs_context |-> FALSE, reason |-> "self-contained"]>>,
       <<"{\"is_ambiguous\": true, \"reason\": \"no domain\", \"clarification_needed\": \"which field?\"}",
         [is_ambiguous |-> TRUE, reason |-> "no domain",
          clarification_needed |-> "which field?"]>>,
       <<"{\"is_ambiguous\": false, \"reason\": \"clear\", \"clarification_needed\": \"\"}",
         [is_ambiguous |-> FALSE, reason |-> "clear", clarification_needed |-> ""]>>,
       <<"{\"reason\": \"cannot tell\"}",
         [reason |-> "cannot tell"]>>,
       <<"{\"subtasks\": [\"Explain the list.\", \"write python code\"], \"reasoning\": \"two tasks\"}",
         [subtasks |-> <<"Explain the list.", "write python code">>,
          reasoning |-> "two tasks"]>>,
       <<"{\"subtasks\": [\"compare the story vs the poem\"], \"reasoning\": \"one task\"}",
         [subtasks |-> <<"compare the story vs the poem">>, reasoning |-> "one task"]>>,
       <<"{\"subtasks\": [], \"reasoning\": \"nothing actionable\"}",
         [subtasks |-> <<>>, reasoning |-> "nothing actionable"]>>,
       <<"{\"reasoning\": \"simple request\"}",
         [reasoning |-> "simple request"]>> >>

IsJson(text) == \E d \in 1..Len(JsonDocuments) : JsonDocuments[d][1] = text

json_loads(text) ==
    IF IsJson(text)
    THEN Return(JsonDocuments[CHOOSE d \in 1..Len(JsonDocuments) :
                                  JsonDocuments[d][1] = text][2])
    ELSE Raise("JSONDecodeError", text)

\* The Markdown fence marker, three grave accents.  A TLA+ string cannot hold
\* a grave accent, so the apostrophe stands for it in every text of the model.
FenceMark == "'''"

\* a variant that takes the marker off but not the language tag
clean_response_keep_tag(response) ==
    LET c0 == strip(response)
        c2 == IF startswith(c0, FenceMark) THEN SubSeq(c0, 4, Len(c0)) ELSE c0
        c3 == IF endswith(c2, FenceMark) THEN SubSeq(c2, 1, Len(c2) - 3) ELSE c2
    IN  strip(c3)

\* the cleaning of the response text before json.loads
clean_response(response) ==
    LET c0 == strip(response)
        c1 == IF startswith(c0, FenceMark \o "json") THEN SubSeq(c0, 8, Len(c0)) ELSE c0
        c2 == IF startswith(c1, FenceMark) THEN SubSeq(c1, 4, Len(c1)) ELSE c1
        c3 == IF endswith(c2, FenceMark) THEN SubSeq(c2, 1, Len(c2) - 3) ELSE c2
    IN  strip(c3)

\* call_gemini_json, given what its call_gemini ended with
call_gemini_json(end) ==
    IF end.kind = "raise" THEN end ELSE json_loads(clean_response(end.value))

\* dict.get(key, default)
get(d, key, default) == IF key \in DOMAIN d THEN d[key] ELSE default

Fenced(tag, doc) == FenceMark \o tag \o "\n" \o doc \o "\n" \o FenceMark

(***************************************************************************)
(* The analyzers that ask the external model.  Each takes what its         *)
(* call_gemini ended with.                                                 *)
(***************************************************************************)
\* context_handler.needs_context
needs_context(end) ==
    LET result == call_gemini_json(end)
    IN  IF result.kind = "raise" THEN result
        ELSE Return(get(result.value, "needs_context", FALSE))

\* ambiguity_detector.is_ambiguous
is_ambiguous(end) ==
    LET result == call_gemini_json(end)
    IN  IF result.kind = "raise" THEN result
        ELSE Return(get(result.value, "is_ambiguous", FALSE))

\* decomposition_engine.decompose_prompt
decompose_prompt(prompt, end) ==
    LET result == call_gemini_json(end)
    IN  IF result.kind = "raise" THEN result
        ELSE Return(get(result.value, "subtasks", <<prompt>>))

\* llm_reasoner.llm_rewrite_prompt
llm_rewrite_prompt(end) == end

\* the texts the external model answers each analyzer with
ContextResponses ==
    {JsonDocuments[1][1], Fenced("json", JsonDocuments[1][1]),
     JsonDocuments[2][1], JsonDocuments[5][1], "I cannot answer that."}

AmbiguityResponses ==
    {JsonDocuments[3][1], Fenced("", JsonDocuments[3][1]),
     JsonDocuments[4][1], JsonDocuments[5][1], "I cannot answer that."}

DecompositionResponses ==
    {JsonDocuments[6][1], Fenced("json", JsonDocuments[7][1]),
     JsonDocuments[8][1], JsonDocuments[9][1], "I cannot answer that."}

RewriteResponses ==
    {"Explain the neural model step by step.", "write python code"}

\* the outcomes of one generate_content call answering from `responses`
Outcomes(responses) ==
    {Ok(r) : r \in responses} \cup {Err(e) : e \in ErrorTexts}

\* every way call_gemini can end, the client at hand, when the external model
\* answers from `responses`
CallEnds(responses) ==
    {call_gemini(outs, "GenerativeModel", TRUE) :
        outs \in [1..(max_retries + 1) -> Outcomes(responses)]}

\* the one way it ends with no client and no key: no generate_content call is made
NoClientEnds == {call_gemini(<<>>, "None", FALSE)}

ContextCallEnds == CallEnds(ContextResponses)
AmbiguityCallEnds == CallEnds(AmbiguityResponses)
DecompositionCallEnds == CallEnds(DecompositionResponses)
RewriteCallEnds == CallEnds(RewriteResponses)

(***************************************************************************)
(* intent_handler.detect_intents                                           *)
(***************************************************************************)
explanation_keywords ==
    <<"explain", "describe", "what is", "define", "tell me about", "how does",
      "what does", "clarify", "elaborate", "illustrate", "break down",
      "walk me through", "help me understand", "give an overview", "introduce",
      "summarize", "outline", "can you explain", "please describe", "what are",
      "what's", "meaning of", "definition of", "concept of", "idea behind",
      "principle of", "theory of", "how to understand", "make sense of",
      "shed light on", "elucidate", "expound", "detail", "specify",
      "characterize", "interpret", "demystify", "unpack", "talk about",
      "discuss", "cover", "go over", "run through", "provide details",
      "give me information", "inform me about", "enlighten me", "teach me",
      "educate me">>

comparison_keywords ==
    <<"compare", "difference between", "vs", "versus", "contrast",
      "distinguish", "compare and contrast", "differentiate",
      "how does X differ from Y", "what's the difference",
      "similarities and differences", "better than", "worse than",
      "superior to", "inferior to", "advantages over", "disadvantages of",
      "X or Y", "which is better", "which should I choose", "preferred over",
      "relative to", "in comparison to", "compared to", "as opposed to",
      "rather than", "instead of", "alternative to", "versus each other",
      "side by side", "head to head", "match up", "stack up against",
      "measure against", "weigh against", "parallel between",
      "correlation between", "relationship between", "likeness", "disparity",
      "distinction", "divergence", "variance", "discrepancy">>

coding_keywords ==
    <<"code", "python", "java", "implement", "algorithm", "function",
      "javascript", "c++", "programming", "script", "program", "develop",
      "build", "create", "write code", "debug", "fix bug", "error", "syntax",
      "compile", "execute", "run", "class", "method", "variable", "loop",
      "array", "list", "dictionary", "object", "API", "library", "framework",
      "module", "package", "import", "return", "parameter", "argument",
      "string", "integer", "boolean", "float", "data structure", "recursion",
      "iteration", "conditional", "if statement", "for loop", "while loop",
      "try catch", "exception", "async", "await", "callback", "promise",
      "regex", "sql", "database", "query", "html", "css", "react", "node",
      "django", "flask", "backend", "frontend", "fullstack", "git", "github",
      "repository", "commit", "push", "pull", "merge", "branch", "refactor",
      "optimize", "test", "unit test", "integration", "deployment", "docker",
      "kubernetes", "CI/CD", "REST API", "GraphQL", "JSON", "XML", "OOP",
      "functional programming", "lambda", "closure", "scope", "inheritance",
      "polymorphism", "encapsulation", "abstraction", "design pattern", "SOLID">>

creative_keywords ==
    <<"story", "poem", "imagine", "creative", "fiction", "write a story",
      "tale", "narrative", "plot", "character", "scene", "dialogue", "novel",
      "short story", "fantasy", "sci-fi", "science fiction", "romance",
      "thriller", "mystery", "adventure", "drama", "comedy", "satire", "parody",
      "fable", "legend", "myth", "fairy tale", "bedtime story",
      "children's story", "write a poem", "haiku", "sonnet", "limerick",
      "verse", "rhyme", "stanza", "ballad", "ode", "elegy", "free verse",
      "acrostic", "epic", "lyric", "create a character", "develop a plot",
      "world-building", "setting", "protagonist", "antagonist", "conflict",
      "climax", "resolution", "twist", "creative writing", "fiction writing",
      "compose", "craft", "invent", "dream up", "conjure", "envision",
      "visualize", "brainstorm ideas", "screenplay", "script", "monologue",
      "soliloquy", "play", "act", "scene", "song lyrics", "rap", "metaphor",
      "simile", "imagery", "symbolism", "allegory", "personification",
      "flashback", "foreshadowing", "narrator", "point of view", "first person",
      "third person", "omniscient", "backstory", "arc", "theme", "motif",
      "tone", "mood", "atmosphere", "genre">>

analysis_keywords ==
    <<"analyze", "analysis", "pros and cons", "evaluate", "assess", "examine",
      "review", "critique", "judge", "appraise", "scrutinize", "investigate",
      "study", "inspect", "explore", "dissect", "parse", "deconstruct",
      "advantages and disadvantages", "benefits and drawbacks",
      "strengths and weaknesses", "upsides and downsides",
      "positive and negative", "merits and demerits", "for and against",
      "arguments for", "arguments against", "case for", "case against",
      "weigh the options", "consider the implications", "assess the impact",
      "evaluate the effectiveness", "determine the value",
      "measure the success", "critical analysis", "in-depth analysis",
      "detailed examination", "thorough review", "comprehensive assessment",
      "systematic evaluation", "objective analysis", "interpret the data",
      "draw conclusions", "infer", "deduce", "reason", "think critically",
      "question", "challenge", "verify", "validate", "test", "evidence for",
      "evidence against", "support for", "opposition to", "feasibility",
      "viability", "practicality", "effectiveness", "efficiency", "performance",
      "quality", "reliability", "validity", "credibility", "trade-offs",
      "opportunity cost", "risk assessment", "cost-benefit", "SWOT analysis",
      "strengths", "weaknesses", "opportunities", "threats", "implications",
      "ramifications", "consequences", "outcomes", "results", "findings",
      "observations", "insights", "patterns", "trends", "correlations">>

question_keywords ==
    <<"what", "why", "how", "when", "where", "who", "which", "whose", "whom",
      "can you", "could you", "would you", "will you", "should I", "do you",
      "is it", "are there", "does it", "has it", "have you", "did you",
      "question about", "I'm wondering", "I want to know", "tell me", "show me",
      "help me", "assist me", "guide me", "advise me", "suggest", "recommend">>

instruction_keywords ==
    <<"create", "make", "build", "generate", "produce", "develop", "design",
      "construct", "formulate", "devise", "draft", "compose", "prepare",
      "give me", "provide", "show", "display", "present", "demonstrate", "list",
      "enumerate", "outline", "summarize", "condense", "shorten", "expand",
      "elaborate", "extend", "lengthen", "add to", "include", "remove",
      "delete", "exclude", "omit", "filter", "extract", "isolate", "convert",
      "transform", "translate", "adapt", "modify", "change", "update", "revise",
      "edit", "improve", "enhance", "optimize", "refine", "simplify", "clarify",
      "restructure", "reorganize", "reformat", "rewrite">>

research_keywords ==
    <<"research", "find information", "look up", "search for", "investigate",
      "gather data", "collect information", "source", "reference", "citation",
      "study on", "report about", "statistics", "data", "facts", "figures",
      "evidence", "documentation", "literature review", "survey", "poll",
      "recent developments", "latest news", "current trends", "up-to-date",
      "scholarly", "academic", "peer-reviewed", "scientific", "empirical",
      "case study", "experiment", "trial", "test results", "findings">>

problem_solving_keywords ==
    <<"solve", "fix", "troubleshoot", "resolve", "address", "handle",
      "deal with", "overcome", "work around", "find a solution", "answer",
      "remedy", "correct", "repair", "debug", "diagnose", "identify the issue",
      "problem with", "issue with", "error in", "bug in", "challenge",
      "difficulty", "obstacle", "roadblock", "bottleneck", "how do I fix",
      "how to solve", "what's wrong", "why isn't", "not working", "failing">>

tutorial_keywords ==
    <<"tutorial", "guide", "how-to", "step by step", "walkthrough",
      "instructions", "teach me", "show me how", "learn", "training", "course",
      "lesson", "beginner", "for beginners", "getting started",
      "introduction to", "basics of", "fundamentals", "start with",
      "first steps", "quickstart", "best practices", "tips", "tricks",
      "techniques", "methods", "approaches">>

summarization_keywords ==
    <<"summarize", "summary", "brief", "overview", "recap", "synopsis",
      "abstract", "digest", "condensed version", "tldr", "in short", "in brief",
      "key points", "main ideas", "highlights", "essence", "gist", "nutshell",
      "boil down", "distill", "compress", "reduce", "shorten", "abbreviate">>

\* intent_keywords: intent name -> keyword list, in the dict's insertion order
intent_keywords ==
    <<<<"explanation", explanation_keywords>>,
      <<"comparison", comparison_keywords>>,
      <<"coding", coding_keywords>>,
      <<"creative", creative_keywords>>,
      <<"analysis", analysis_keywords>>,
      <<"question", question_keywords>>,
      <<"instruction", instruction_keywords>>,
      <<"research", research_keywords>>,
      <<"problem_solving", problem_solving_keywords>>,
      <<"tutorial", tutorial_keywords>>,
      <<"summarization", summarization_keywords>>>>

priority_order ==
    <<"comparison", "coding", "analysis", "tutorial", "explanation", "research",
      "summarization", "creative", "instruction", "question", "problem_solving",
      "general">>

InSeq(x, seq) == \E i \in 1..Len(seq) : seq[i] = x

\* every substring of s
Substrings(s) ==
    {""} \cup {SubSeq(s, i, j) : <<i, j>> \in {ij \in (1..Len(s)) \X (1..Len(s)) : ij[1] <= ij[2]}}

\* any(keyword in lower_prompt for keyword in keywords), with `parts` the set of
\* substrings of lower_prompt
AnyKeyword(keywords, parts) == \E k \in 1..Len(keywords) : keywords[k] \in parts

\* the loop over intent_keywords.items(): an intent is appended when one of
\* its keywords is in lower_prompt and it is not yet in detected
RECURSIVE detect_loop(_, _, _)
detect_loop(k, parts, detected) ==
    IF k > Len(intent_keywords) THEN detected
    ELSE LET intent_name == intent_keywords[k][1]
             keywords == intent_keywords[k][2]
         IN  detect_loop(k + 1, parts,
                 IF AnyKeyword(keywords, parts) /\ ~InSeq(intent_name, detected)
                 THEN Append(detected, intent_name)
                 ELSE detected)

\* the sort key: priority_order.index(x) if x in priority_order else len(priority_order)
priority_key(x) ==
    IF InSeq(x, priority_order)
    THEN (CHOOSE i \in 1..Len(priority_order) :
              /\ priority_order[i] = x
              /\ \A j \in 1..(i - 1) : priority_order[j] # x) - 1
    ELSE Len(priority_order)

\* list.sort(key=priority_key): a stable sort
RECURSIVE insert_by_key(_, _)
insert_by_key(sorted, x) ==
    IF sorted = <<>> THEN <<x>>
    ELSE IF priority_key(sorted[Len(sorted)]) <= priority_key(x)
         THEN Append(sorted, x)
         ELSE Append(insert_by_key(SubSeq(sorted, 1, Len(sorted) - 1), x),
                     sorted[Len(sorted)])

\* a variant that leaves the list in the order of detection
sort_by_priority_none(seq) == seq

RECURSIVE sort_by_priority(_)
sort_by_priority(seq) ==
    IF seq = <<>> THEN <<>>
    ELSE insert_by_key(sort_by_priority(SubSeq(seq, 1, Len(seq) - 1)), seq[Len(seq)])

detect_intents(prompt) ==
    LET lower_prompt == lower(prompt)
        detected == detect_loop(1, Substrings(lower_prompt), <<>>)
    IN  IF detected = <<>> THEN <<"general">> ELSE sort_by_priority(detected)

\* detect_intent: the primary intent
detect_intent(prompt) ==
    LET intents == detect_intents(prompt)
    IN  IF intents # <<>> THEN intents[1] ELSE "general"

(***************************************************************************)
(* optimizer_pipeline._build_instructions_for_intents                      *)
(***************************************************************************)
\* instructions.append(text) if cond
AppendIf(instructions, cond, text) ==
    IF cond THEN Append(instructions, text) ELSE instructions

\* a variant that adds the creative tone also to coding tasks
_build_instructions_creative_always(intents) ==
    LET i1 == AppendIf(<<>>, InSeq("explanation", intents),
                  "Explain clearly in structured bullet points.")
        i2 == AppendIf(i1, InSeq("comparison", intents),
                  "Present the comparison in a table covering key differences and similarities.")
        i3 == AppendIf(i2, InSeq("coding", intents),
                  "Provide clean, well-commented code and explain the logic.")
        i4 == AppendIf(i3, InSeq("analysis", intents),
                  "Include analytical insights, pros, cons, and evaluation.")
        i5 == AppendIf(i4, InSeq("summarization", intents),
                  "Provide a concise summary highlighting key ideas.")
        i6 == AppendIf(i5, InSeq("tutorial", intents),
                  "Present the explanation step-by-step like a tutorial.")
        i7 == AppendIf(i6, InSeq("creative", intents),
                  "Use engaging and vivid language.")
    IN  IF i7 = <<>> THEN <<"Provide a clear and detailed response.">> ELSE i7

_build_instructions_for_intents(intents) ==
    LET i1 == AppendIf(<<>>, InSeq("explanation", intents),
                  "Explain clearly in structured bullet points.")
        i2 == AppendIf(i1, InSeq("comparison", intents),
                  "Present the comparison in a table covering key differences and similarities.")
        i3 == AppendIf(i2, InSeq("coding", intents),
                  "Provide clean, well-commented code and explain the logic.")
        i4 == AppendIf(i3, InSeq("analysis", intents),
                  "Include analytical insights, pros, cons, and evaluation.")
        i5 == AppendIf(i4, InSeq("summarization", intents),
                  "Provide a concise summary highlighting key ideas.")
        i6 == AppendIf(i5, InSeq("tutorial", intents),
                  "Present the explanation step-by-step like a tutorial.")
        i7 == AppendIf(i6, InSeq("creative", intents) /\ ~InSeq("coding", intents),
                  "Use engaging and vivid language.")
    IN  IF i7 = <<>> THEN <<"Provide a clear and detailed response.">> ELSE i7

(***************************************************************************)
(* State.                                                                  *)
(***************************************************************************)
VARIABLES
    \* one strict-mode run of optimizer_pipeline.optimize_prompt
    pc,               \* the stage the run is at
    request,          \* the raw_prompt argument as received
    raw_prompt,       \* the local raw_prompt (context-augmented, rewritten)
    previous_context, \* <<>> for None, <<text>> for a string
    score_data,
    ambiguity_flag,
    llm_triggered,
    subtasks,
    done_subtasks,    \* iterations of the loop over subtasks completed
    optimized_output,
    outcome,          \* what the run ended with: Return(text) or Raise(..)
    calls,            \* the analyzer calls made so far, in order, with results
    stages,           \* the stages entered so far, in order
    \* the process-wide client of llm_interface
    _model,           \* llm_interface._model
    api_key,          \* GEMINI_API_KEY is set in the environment
    \* one activation of llm_interface.call_gemini
    call_pc,          \* "idle", "get_model", "attempt", "sleep", "returned", "raised"
    call_prompt,      \* the prompt argument
    attempt,          \* the loop variable; max_retries for the final attempt
    call_end,         \* what the call ended with
    made,             \* the outcomes of the generate_content calls made, in order
    slept,            \* the time.sleep waits made, in order
    \* concurrent calls through the asynchronous entry points
    entry,            \* the entry point the calls are issued through
    task,             \* per call: where it is
    _semaphore,       \* llm_interface._semaphore: None or an asyncio.Semaphore
    built,            \* how often each of the two objects has been constructed:
                      \* 0, 1, or 2 for more than once
    \* one call of a function that keeps no state
    fn_pc,            \* "idle", "ready", "called"
    fn_name,          \* the function called
    fn_arg,           \* its argument
    fn_ret            \* what it ended with

pipeVars ==
    <<pc, request, raw_prompt, previous_context, score_data, ambiguity_flag,
      llm_triggered, subtasks, done_subtasks, optimized_output, outcome, calls,
      stages>>

clientVars == <<_model, api_key>>

callVars == <<call_pc, call_prompt, attempt, call_end, made, slept>>

gateVars == <<entry, task, _semaphore, built>>

fnVars == <<fn_pc, fn_name, fn_arg, fn_ret>>

vars == <<pipeVars, clientVars, callVars, gateVars, fnVars>>

Running == [kind |-> "running", value |-> ""]

ClientInit ==
    /\ _model \in {"None", "GenerativeModel"}
    /\ api_key \in BOOLEAN

\* no run of optimize_prompt is under way
PipeIdle ==
    /\ pc = "idle"
    /\ request = ""
    /\ raw_prompt = ""
    /\ previous_context = <<>>
    /\ score_data = [clarity |-> 0, specificity |-> 0, structure |-> 0, total_score |-> 0]
    /\ ambiguity_flag = FALSE
    /\ llm_triggered = FALSE
    /\ subtasks = <<>>
    /\ done_subtasks = 0
    /\ optimized_output = ""
    /\ outcome = Running
    /\ calls = <<>>
    /\ stages = <<>>

\* no single call_gemini activation is followed
CallIdle ==
    /\ call_pc = "idle"
    /\ call_prompt = ""
    /\ attempt = 0
    /\ call_end = Running
    /\ made = <<>>
    /\ slept = <<>>

\* _semaphore = None: no semaphore object yet
NoSemaphore == [created |-> FALSE, value |-> 0, waiters |-> <<>>]

\* asyncio.Semaphore(MAX_CONCURRENT_REQUESTS)
NewSemaphore == [created |-> TRUE, value |-> MAX_CONCURRENT_REQUESTS, waiters |-> <<>>]

\* no stateless function is called on its own
FnIdle ==
    /\ fn_pc = "idle"
    /\ fn_name = "none"
    /\ fn_arg = ""
    /\ fn_ret = Running

\* no concurrent calls are issued
GateIdle ==
    /\ entry = "none"
    /\ task = <<>>
    /\ _semaphore = NoSemaphore
    /\ built = [model |-> 0, semaphore |-> 0]

(***************************************************************************)
(* optimizer_pipeline.optimize_prompt: one strict-mode run                 *)
(***************************************************************************)
Fragments == {"", "explain", "something", "python code", "The list."}

RECURSIVE JoinsOf(_)
JoinsOf(n) ==
    IF n = 0 THEN {""}
    ELSE IF n = 1 THEN Fragments
    ELSE {p \o " " \o f : p \in JoinsOf(n - 1), f \in Fragments}

Prompts == UNION {JoinsOf(n) : n \in 0..MaxFrags}

Contexts == {<<>>, <<"">>, <<" ">>, <<"old notes">>}

VagueMessage ==
    "The request is unclear or too vague. Please provide more details about "
    \o "what you want. For example, specify the topic, format, or type of output."

AmbiguousMessage ==
    "Your request is too broad or ambiguous. Please clarify the domain or context. "
    \o "For example, specify whether this relates to technology, business, science, or another field."

RewriteMarker == "[LLM Rewrite Triggered]\n\n"

\* the test `previous_context is not None` in place of the truth value
TruthyNotNone(ctx) == ctx # <<>>

\* truth value of previous_context: None and "" are false
Truthy(ctx) == ctx # <<>> /\ ctx[1] # ""

\* a variant that puts the context in front of the request without the template
WithContextBare(ctx, prompt) == ctx[1] \o " " \o prompt

WithContext(ctx, prompt) ==
    "Considering the previous context: " \o ctx[1]
    \o ". Now perform this request: " \o prompt

\* the low-score test with < in place of <=
low_score_strict(score) == score.total_score < 3

\* STEP 3: if total_score <= 3
low_score(score) == score.total_score <= 3

\* the ambiguity test inverted
ambiguous_exit_inverted(flag) == ~flag

\* STEP 4: if ambiguity_flag
ambiguous_exit(flag) == flag

\* the rewrite test with <= in place of <
rewrite_needed_le(score, flag) ==
    LET low_quality == score.total_score <= 6
        is_vague == flag
    IN  low_quality \/ is_vague

\* STEP 5: if low_quality or is_vague
rewrite_needed(score, flag) ==
    LET low_quality == score.total_score < 6
        is_vague == flag
    IN  low_quality \/ is_vague

\* "\n".join(f"- {inst}" for inst in instructions)
RECURSIVE instructions_text(_)
instructions_text(instructions) ==
    IF instructions = <<>> THEN ""
    ELSE IF Len(instructions) = 1 THEN "- " \o instructions[1]
    ELSE "- " \o instructions[1] \o "\n" \o instructions_text(Tail(instructions))

\* a variant that lists the instructions without bullets
SubtaskBlockPlain(subtask, instructions) ==
    "Sub-Task: " \o subtask \o "\nInstructions:\n"
    \o instructions[1] \o "\n\n"

SubtaskBlock(subtask, instructions) ==
    "Sub-Task: " \o subtask \o "\nInstructions:\n"
    \o instructions_text(instructions) \o "\n\n"

\* the ways a call_gemini made now can end
Ends(ends) == IF get_model_ok(_model, api_key) THEN ends ELSE NoClientEnds

Called(fn, arg, ret) == Append(calls, [fn |-> fn, arg |-> arg, ret |-> ret])

Goto(stage) == pc' = stage /\ stages' = Append(stages, stage)

PipeInit ==
    /\ pc = "ContextCheck"
    /\ request \in Prompts
    /\ raw_prompt = request
    /\ previous_context \in Contexts
    /\ score_data = [clarity |-> 0, specificity |-> 0, structure |-> 0, total_score |-> 0]
    /\ ambiguity_flag = FALSE
    /\ llm_triggered = FALSE
    /\ subtasks = <<>>
    /\ done_subtasks = 0
    /\ optimized_output = ""
    /\ outcome = Running
    /\ calls = <<>>
    /\ stages = <<"ContextCheck">>

\* STEP 1: if previous_context and needs_context(raw_prompt): attach
ContextCheck ==
    /\ pc = "ContextCheck"
    /\ IF ~Truthy(previous_context)
       THEN /\ Goto("Scoring")
            /\ UNCHANGED <<raw_prompt, outcome, calls, _model>>
       ELSE \E end \in Ends(ContextCallEnds) :
              LET flag == needs_context(end)
              IN  /\ calls' = Called("needs_context", raw_prompt, flag)
                  /\ _model' = get_model(_model, api_key)
                  /\ IF flag.kind = "raise"
                     THEN /\ Goto("Raised")
                          /\ outcome' = flag
                          /\ UNCHANGED raw_prompt
                     ELSE /\ Goto("Scoring")
                          /\ raw_prompt' = IF flag.value
                                           THEN WithContext(previous_context, raw_prompt)
                                           ELSE raw_prompt
                          /\ UNCHANGED outcome
    /\ UNCHANGED <<request, previous_context, score_data, ambiguity_flag,
                   llm_triggered, subtasks, done_subtasks, optimized_output, api_key>>
    /\ UNCHANGED <<callVars, gateVars, fnVars>>

\* STEP 2 and 3: score; a low score returns the clarification message
Scoring ==
    /\ pc = "Scoring"
    /\ score_data' = score_prompt(raw_prompt)
    /\ calls' = Called("score_prompt", raw_prompt, Return(score_data'))
    /\ IF low_score(score_data')
       THEN /\ Goto("Done")
            /\ outcome' = Return(VagueMessage)
       ELSE /\ Goto("AmbiguityCheck")
            /\ UNCHANGED outcome
    /\ UNCHANGED <<request, raw_prompt, previous_context, ambiguity_flag,
                   llm_triggered, subtasks, done_subtasks, optimized_output,
                   _model, api_key>>
    /\ UNCHANGED <<callVars, gateVars, fnVars>>

\* STEP 4: ambiguity detection on the prompt with the context attached
AmbiguityCheck ==
    /\ pc = "AmbiguityCheck"
    /\ \E end \in Ends(AmbiguityCallEnds) :
         LET flag == is_ambiguous(end)
         IN  /\ calls' = Called("is_ambiguous", raw_prompt, flag)
             /\ _model' = get_model(_model, api_key)
             /\ IF flag.kind = "raise"
                THEN /\ Goto("Raised")
                     /\ outcome' = flag
                     /\ UNCHANGED ambiguity_flag
                ELSE /\ ambiguity_flag' = flag.value
                     /\ IF ambiguous_exit(flag.value)
                        THEN /\ Goto("Done")
                             /\ outcome' = Return(AmbiguousMessage)
                        ELSE /\ Goto("RewriteDecision")
                             /\ UNCHANGED outcome
    /\ UNCHANGED <<request, raw_prompt, previous_context, score_data,
                   llm_triggered, subtasks, done_subtasks, optimized_output, api_key>>
    /\ UNCHANGED <<callVars, gateVars, fnVars>>

\* STEP 5: rewrite when low_quality or is_vague
RewriteDecision ==
    /\ pc = "RewriteDecision"
    /\ IF rewrite_needed(score_data, ambiguity_flag)
       THEN \E end \in Ends(RewriteCallEnds) :
              LET rewritten == llm_rewrite_prompt(end)
              IN  /\ llm_triggered' = TRUE
                  /\ calls' = Called("llm_rewrite_prompt", raw_prompt, rewritten)
                  /\ _model' = get_model(_model, api_key)
                  /\ IF rewritten.kind = "raise"
                     THEN /\ Goto("Raised")
                          /\ outcome' = rewritten
                          /\ UNCHANGED raw_prompt
                     ELSE /\ Goto("Decomposition")
                          /\ raw_prompt' = rewritten.value
                          /\ UNCHANGED outcome
       ELSE /\ Goto("Decomposition")
            /\ UNCHANGED <<llm_triggered, calls, _model, raw_prompt, outcome>>
    /\ UNCHANGED <<request, previous_context, score_data, ambiguity_flag,
                   subtasks, done_subtasks, optimized_output, api_key>>
    /\ UNCHANGED <<callVars, gateVars, fnVars>>

\* a variant that goes on with the whole text as the only sub-task when the
\* decomposer fails
DecompositionFallback ==
    /\ pc = "Decomposition"
    /\ \E end \in Ends(DecompositionCallEnds) :
         LET parts == decompose_prompt(raw_prompt, end)
         IN  /\ calls' = Called("decompose_prompt", raw_prompt, parts)
             /\ _model' = get_model(_model, api_key)
             /\ IF parts.kind = "raise"
                THEN /\ Goto("PerSubtaskIntent")
                     /\ subtasks' = <<raw_prompt>>
                     /\ optimized_output' = IF llm_triggered THEN RewriteMarker ELSE ""
                     /\ UNCHANGED outcome
                ELSE /\ Goto("PerSubtaskIntent")
                     /\ subtasks' = parts.value
                     /\ optimized_output' = IF llm_triggered THEN RewriteMarker ELSE ""
                     /\ UNCHANGED outcome
    /\ UNCHANGED <<request, raw_prompt, previous_context, score_data,
                   ambiguity_flag, llm_triggered, done_subtasks, api_key>>
    /\ UNCHANGED <<callVars, gateVars, fnVars>>

\* STEP 6: decompose; the output starts with the marker after a rewrite
Decomposition ==
    /\ pc = "Decomposition"
    /\ \E end \in Ends(DecompositionCallEnds) :
         LET parts == decompose_prompt(raw_prompt, end)
         IN  /\ calls' = Called("decompose_prompt", raw_prompt, parts)
             /\ _model' = get_model(_model, api_key)
             /\ IF parts.kind = "raise"
                THEN /\ Goto("Raised")
                     /\ outcome' = parts
                     /\ UNCHANGED <<subtasks, optimized_output>>
                ELSE /\ Goto("PerSubtaskIntent")
                     /\ subtasks' = parts.value
                     /\ optimized_output' = IF llm_triggered THEN RewriteMarker ELSE ""
                     /\ UNCHANGED outcome
    /\ UNCHANGED <<request, raw_prompt, previous_context, score_data,
                   ambiguity_flag, llm_triggered, done_subtasks, api_key>>
    /\ UNCHANGED <<callVars, gateVars, fnVars>>

\* STEP 7 and 8: one iteration of the loop over subtasks
PerSubtaskIntent ==
    /\ pc = "PerSubtaskIntent"
    /\ done_subtasks < Len(subtasks)
    /\ LET subtask == subtasks[done_subtasks + 1]
           intents == detect_intents(subtask)
           instructions == _build_instructions_for_intents(intents)
       IN  /\ calls' = Called("detect_intents", subtask, Return(intents))
           /\ optimized_output' = optimized_output \o SubtaskBlock(subtask, instructions)
    /\ done_subtasks' = done_subtasks + 1
    /\ UNCHANGED <<pc, stages, request, raw_prompt, previous_context, score_data,
                   ambiguity_flag, llm_triggered, subtasks, outcome, _model, api_key>>
    /\ UNCHANGED <<callVars, gateVars, fnVars>>

\* the loop over subtasks left one iteration early
SubtasksDoneEarly ==
    /\ pc = "PerSubtaskIntent"
    /\ done_subtasks >= Len(subtasks) - 1
    /\ Goto("Assembly")
    /\ UNCHANGED <<request, raw_prompt, previous_context, score_data,
                   ambiguity_flag, llm_triggered, subtasks, done_subtasks,
                   optimized_output, outcome, calls, _model, api_key>>
    /\ UNCHANGED <<callVars, gateVars, fnVars>>

\* the loop over subtasks is exhausted
SubtasksDone ==
    /\ pc = "PerSubtaskIntent"
    /\ done_subtasks = Len(subtasks)
    /\ Goto("Assembly")
    /\ UNCHANGED <<request, raw_prompt, previous_context, score_data,
                   ambiguity_flag, llm_triggered, subtasks, done_subtasks,
                   optimized_output, outcome, calls, _model, api_key>>
    /\ UNCHANGED <<callVars, gateVars, fnVars>>

\* STEP 9: return optimized_output
Assembly ==
    /\ pc = "Assembly"
    /\ Goto("Done")
    /\ outcome' = Return(optimized_output)
    /\ UNCHANGED <<request, raw_prompt, previous_context, score_data,
                   ambiguity_flag, llm_triggered, subtasks, done_subtasks,
                   optimized_output, calls, _model, api_key>>
    /\ UNCHANGED <<callVars, gateVars, fnVars>>

Init == PipeInit /\ ClientInit /\ CallIdle /\ GateIdle /\ FnIdle

Next ==
    \/ ContextCheck
    \/ Scoring
    \/ AmbiguityCheck
    \/ RewriteDecision
    \/ Decomposition
    \/ PerSubtaskIntent
    \/ SubtasksDone
    \/ Assembly

Spec == Init /\ [][Next]_vars

(***************************************************************************)
(* Properties of the strict-mode run.                                      *)
(***************************************************************************)
Made(fn) == \E i \in 1..Len(calls) : calls[i].fn = fn

CallsOf(fn) == SelectSeq(calls, LAMBDA c : c.fn = fn)

Entered(stage) == InSeq(stage, stages)

\* C1: a run whose score has total <= 3 ends at once with the 'unclear or too
\* vague' message, and the ambiguity detector, the rewrite, the decomposer and
\* the intent classifier are never invoked in it.
C1_LowScoreExit ==
    \A i \in 1..Len(calls) :
        (calls[i].fn = "score_prompt" /\ calls[i].ret.value.total_score <= 3) =>
            /\ pc = "Done"
            /\ outcome = Return(VagueMessage)
            /\ ~Made("is_ambiguous")
            /\ ~Made("llm_rewrite_prompt")
            /\ ~Made("decompose_prompt")
            /\ ~Made("detect_intents")

\* a run scored exactly 3 has returned the message
C1_Witness ==
    /\ Made("score_prompt")
    /\ score_data.total_score = 3
    /\ pc = "Done"
    /\ outcome = Return(VagueMessage)

\* C2: a run that passed the low-score check and whose ambiguity detector
\* flagged the request ends with the 'too broad or ambiguous' message, and the
\* rewrite, the decomposer and the intent classifier are never invoked in it.
C2_AmbiguousExit ==
    /\ Made("is_ambiguous") => score_data.total_score > 3
    /\ \A i \in 1..Len(calls) :
        (/\ calls[i].fn = "is_ambiguous"
         /\ calls[i].ret.kind = "return"
         /\ calls[i].ret.value) =>
            /\ pc = "Done"
            /\ outcome = Return(AmbiguousMessage)
            /\ ~Made("llm_rewrite_prompt")
            /\ ~Made("decompose_prompt")
            /\ ~Made("detect_intents")

\* the detector flagged a context-augmented request and the run returned the message
C2_Witness ==
    /\ pc = "Done"
    /\ outcome = Return(AmbiguousMessage)
    /\ ambiguity_flag
    /\ raw_prompt # request

\* a non-empty prior-context string was supplied
ContextSupplied == previous_context # <<>> /\ Len(previous_context[1]) > 0

\* the context-need detector flagged the request
ContextFlagged ==
    \E i \in 1..Len(calls) :
        /\ calls[i].fn = "needs_context"
        /\ calls[i].ret.kind = "return"
        /\ calls[i].ret.value

\* the text the run works on after STEP 1
AugmentedText ==
    IF ContextSupplied /\ ContextFlagged
    THEN "Considering the previous context: " \o previous_context[1]
         \o ". Now perform this request: " \o request
    ELSE request

\* C3: the context-need detector is asked exactly when a non-empty prior
\* context is supplied, about the original request and before anything else;
\* the context is attached exactly when it then flags the request; Scoring and
\* AmbiguityCheck are computed on the resulting text.
C3_ContextAttachment ==
    /\ \A i \in 1..Len(calls) :
        calls[i].fn = "needs_context" =>
            ContextSupplied /\ calls[i].arg = request /\ i = 1
    /\ (ContextSupplied /\ pc # "ContextCheck") => Made("needs_context")
    /\ pc = "Scoring" => raw_prompt = AugmentedText
    /\ \A i \in 1..Len(calls) :
        calls[i].fn \in {"score_prompt", "is_ambiguous"} => calls[i].arg = AugmentedText

\* the ambiguity detector was asked about a context-augmented request
C3_Witness ==
    /\ ContextSupplied /\ ContextFlagged
    /\ \E i \in 1..Len(calls) :
        /\ calls[i].fn = "is_ambiguous"
        /\ calls[i].arg = AugmentedText
        /\ calls[i].arg # request

\* C4: the rewrite is invoked only at RewriteDecision, and exactly when the run
\* gets there with total < 6 or the ambiguity flag set, which is exactly at
\* total 4 or 5 with the flag clear; the decomposer gets the text that was
\* scored when total >= 6 and the rewritten text otherwise.
C4_RewriteDecision ==
    /\ Made("llm_rewrite_prompt") => Entered("RewriteDecision")
    /\ (Entered("RewriteDecision") /\ pc # "RewriteDecision") =>
        /\ ~ambiguity_flag
        /\ score_data.total_score > 3
        /\ Made("llm_rewrite_prompt") <=> (score_data.total_score < 6 \/ ambiguity_flag)
        /\ Made("llm_rewrite_prompt") <=> score_data.total_score \in {4, 5}
    /\ \A i \in 1..Len(calls) :
        calls[i].fn = "decompose_prompt" =>
            IF score_data.total_score >= 6
            THEN calls[i].arg = CallsOf("score_prompt")[1].arg
            ELSE calls[i].arg = CallsOf("llm_rewrite_prompt")[1].ret.value

\* a run scored 5 was rewritten and the decomposer got the rewritten text
C4_Witness ==
    /\ score_data.total_score = 5
    /\ Made("llm_rewrite_prompt")
    /\ \E i \in 1..Len(calls) :
        /\ calls[i].fn = "decompose_prompt"
        /\ calls[i].arg = CallsOf("llm_rewrite_prompt")[1].ret.value
        /\ calls[i].arg # CallsOf("score_prompt")[1].arg

StageOrder ==
    <<"ContextCheck", "Scoring", "AmbiguityCheck", "RewriteDecision",
      "Decomposition", "PerSubtaskIntent", "Assembly", "Done">>

StageIndex(stage) == CHOOSE i \in 1..Len(StageOrder) : StageOrder[i] = stage

\* the stage an analyzer is called in
StageOfCall ==
    [needs_context |-> 1, score_prompt |-> 2, is_ambiguous |-> 3,
     llm_rewrite_prompt |-> 4, decompose_prompt |-> 5, detect_intents |-> 6]

\* C5: the stages are entered in the fixed order, each at most once and never
\* an earlier one again (a failure ends the run); every analyzer is called in
\* its stage, the context check, the scorer, the ambiguity check, the rewrite
\* and the decomposer at most once, and the intent classifier once for each
\* sub-task, in order.
C5_StageOrder ==
    /\ pc = stages[Len(stages)]
    /\ \A i \in 1..Len(stages) : stages[i] = "Raised" => i = Len(stages)
    /\ \A i, j \in 1..Len(stages) :
        (i < j /\ stages[j] # "Raised") =>
            StageIndex(stages[i]) < StageIndex(stages[j])
    /\ \A fn \in {"needs_context", "score_prompt", "is_ambiguous",
                  "llm_rewrite_prompt", "decompose_prompt"} :
        Len(CallsOf(fn)) <= 1
    /\ \A i, j \in 1..Len(calls) :
        i < j => StageOfCall[calls[i].fn] <= StageOfCall[calls[j].fn]
    /\ \A i \in 1..Len(calls) : Entered(StageOrder[StageOfCall[calls[i].fn]])
    /\ [k \in 1..Len(CallsOf("detect_intents")) |-> CallsOf("detect_intents")[k].arg]
           = SubSeq(subtasks, 1, done_subtasks)
    /\ Entered("Assembly") => done_subtasks = Len(subtasks)

\* a run went through all eight stages with a context check, a rewrite and
\* two sub-tasks
C5_Witness ==
    /\ pc = "Done"
    /\ stages = StageOrder
    /\ Made("needs_context")
    /\ Made("llm_rewrite_prompt")
    /\ Len(subtasks) = 2
    /\ Len(CallsOf("detect_intents")) = 2

\* C9: decompose_prompt never returns an empty sequence.
C9_DecomposeNonEmpty ==
    \A i \in 1..Len(calls) :
        (calls[i].fn = "decompose_prompt" /\ calls[i].ret.kind = "return") =>
            Len(calls[i].ret.value) >= 1

\* C10: every score has clarity, specificity and structure in 0..5 and
\* total_score equal to their sum.
C10_ScoreBounds ==
    \A i \in 1..Len(calls) :
        calls[i].fn = "score_prompt" =>
            LET score == calls[i].ret.value
            IN  /\ score.clarity \in 0..5
                /\ score.specificity \in 0..5
                /\ score.structure \in 0..5
                /\ score.total_score = score.clarity + score.specificity + score.structure
                /\ score.total_score \in 0..15

\* a text was scored with clarity 5 and a total of at least 13
C10_Witness ==
    /\ Made("score_prompt")
    /\ score_data.clarity = 5
    /\ score_data.total_score >= 13

(***************************************************************************)
(* llm_interface.call_gemini, one activation followed step by step         *)
(***************************************************************************)
CallPrompts == {"explain", "write python code"}

CallInit ==
    /\ call_pc = "get_model"
    /\ call_prompt \in CallPrompts
    /\ attempt = 0
    /\ call_end = Running
    /\ made = <<>>
    /\ slept = <<>>

\* model = _get_model()
GetModel ==
    /\ call_pc = "get_model"
    /\ IF get_model_ok(_model, api_key)
       THEN /\ call_pc' = "attempt"
            /\ call_end' = call_end
       ELSE /\ call_pc' = "raised"
            /\ call_end' = NoKeyError
    /\ _model' = get_model(_model, api_key)
    /\ UNCHANGED <<call_prompt, attempt, made, slept, api_key, pipeVars, gateVars, fnVars>>

\* response = model.generate_content(prompt), inside the loop for
\* attempt < max_retries and after it for attempt = max_retries, with what
\* the try/except around it does
GenerateContent ==
    /\ call_pc = "attempt"
    /\ \E o \in Outcomes(RewriteResponses) :
         LET r == after_attempt(attempt, o) IN
           /\ made' = Append(made, [prompt |-> call_prompt, ok |-> o.ok, text |-> o.text])
           /\ call_pc' = r.pc
           /\ call_end' = IF r.pc = "sleep" THEN call_end ELSE r.out
    /\ UNCHANGED <<call_prompt, attempt, slept, clientVars, pipeVars, gateVars, fnVars>>

\* time.sleep(wait_time) and the next iteration of the loop
BackoffSleep ==
    /\ call_pc = "sleep"
    /\ slept' = Append(slept, wait_time(attempt))
    /\ attempt' = attempt + 1
    /\ call_pc' = "attempt"
    /\ UNCHANGED <<call_prompt, call_end, made, clientVars, pipeVars, gateVars, fnVars>>

InitInvoker == CallInit /\ ClientInit /\ PipeIdle /\ GateIdle /\ FnIdle

NextInvoker ==
    \/ GetModel
    \/ GenerateContent
    \/ BackoffSleep

SpecInvoker == InitInvoker /\ [][NextInvoker]_vars

\* the thread running call_gemini keeps running: a generate_content call
\* ends and a sleep is over at some time
SpecInvokerFair == SpecInvoker /\ WF_vars(NextInvoker)

(***************************************************************************)
(* Properties of one call_gemini activation.                               *)
(***************************************************************************)
Failed(i) == ~made[i].ok

Throttled(i) == Failed(i) /\ IsThrottle(made[i].text)

CallOver == call_pc \in {"returned", "raised"}

\* the stepwise activation ends as the function call_gemini computes
CallAgreesWithFunction ==
    (CallOver /\ made # <<>>) =>
        \E outs \in [1..(max_retries + 1) -> Outcomes(RewriteResponses)] :
            /\ \A i \in 1..Len(made) : outs[i] = [ok |-> made[i].ok, text |-> made[i].text]
            /\ call_end = call_gemini(outs, "GenerativeModel", TRUE)

\* C7: a failure of generate_content whose text holds neither "429" nor
\* "RESOURCE_EXHAUSTED" is, on whichever attempt it happens, the last thing
\* the call does: it is the final attempt made, no backoff wait follows it, and
\* the call has ended by raising that very failure.
C7_NonThrottlePropagates ==
    \A i \in 1..Len(made) :
        (Failed(i) /\ ~Throttled(i)) =>
            /\ i = Len(made)
            /\ Len(slept) = i - 1
            /\ call_pc = "raised"
            /\ call_end = Raise("APIError", made[i].text)

\* a non-throttling failure on an attempt after the first, which was throttled
C7_Witness ==
    /\ Len(made) >= 2
    /\ Throttled(1)
    /\ Failed(Len(made)) /\ ~Throttled(Len(made))
    /\ call_pc = "raised"

AllThrottled ==
    /\ Len(made) = max_retries + 1
    /\ \A i \in 1..Len(made) : Throttled(i)

\* the failure a call ended with is a throttling signal of the provider
EndsThrottled == call_end.kind = "raise" /\ IsThrottle(call_end.value.text)

\* C8 as stated: when every attempt was throttled, the failure the caller gets
\* is not a throttling failure but a distinct, non-retryable service failure.
C8_ExhaustedIsServiceError ==
    (AllThrottled /\ CallOver) => (call_end.kind = "raise" /\ ~EndsThrottled)

\* C8 amended: when every attempt was throttled, the call has made
\* max_retries + 1 attempts with waits of 2, 3 and 5 seconds between them and
\* ends by raising the throttling failure of the final attempt, unchanged.
C8_ExhaustedPropagatesLast ==
    AllThrottled =>
        /\ call_pc = "raised"
        /\ slept = <<2, 3, 5>>
        /\ call_end = Raise("APIError", made[Len(made)].text)
        /\ EndsThrottled

\* all four attempts throttled, the last with another text than the first
C8_Witness ==
    /\ AllThrottled
    /\ call_pc = "raised"
    /\ made[1].text # made[Len(made)].text

\* the waits after the throttled attempts 0, 1 and 2, in seconds
BackoffWaits == <<2, 3, 5>>

\* what holds of the retries at every moment of a call
RetryDiscipline ==
    /\ \A i \in 1..Len(made) : made[i].prompt = call_prompt
    /\ Len(made) <= 4
    /\ \A i \in 1..(Len(made) - 1) : Throttled(i)
    /\ Len(slept) <= Len(BackoffWaits)
    /\ slept = SubSeq(BackoffWaits, 1, Len(slept))
    /\ \A k \in 1..Len(slept) : Throttled(k)
    /\ call_pc = "attempt" => Len(slept) = Len(made)
    /\ (call_pc \in {"sleep", "returned", "raised"} /\ made # <<>>) =>
          Len(slept) = Len(made) - 1
    /\ (call_pc = "sleep") => (Throttled(Len(made)) /\ Len(made) < 4)
    /\ Len(made) = 4 => CallOver

\* C18: every attempt of a call sends the same prompt; a further attempt is
\* made only after a throttled one and after a wait of 2, 3 and 5 seconds
\* (2^k + 1 after attempt k); at most 4 attempts are made, the 4th ends the
\* call by a return or a raise; and every call ends at some time.
C18_BackoffTerminates == [](RetryDiscipline) /\ <>CallOver

\* throttled three times, answered on the fourth attempt
C18_Witness ==
    /\ call_pc = "returned"
    /\ Len(made) = 4
    /\ slept = <<2, 3, 5>>
    /\ call_end = Return(made[4].text)

(***************************************************************************)
(* llm_interface.call_gemini_async and call_gemini_json_async: NumCalls    *)
(* calls issued on one event loop, each run on a thread of the loop's      *)
(* default executor.  Calls are interchangeable, so they are issued in the *)
(* order of their numbers.                                                 *)
(***************************************************************************)
Calls == 1..NumCalls

\* run_in_executor(None, ..) uses the default ThreadPoolExecutor, which has
\* min(32, cpu_count + 4) workers: five on a single processor
ExecutorWorkers == 5

Entries == {"call_gemini_async", "call_gemini_json_async"}

GateOutcomes ==
    {Ok(JsonDocuments[4][1]), Ok("I cannot answer that."),
     Err("429 Too Many Requests"), Err("500 Internal error")}

\* a call: where it is, the attempt number of call_gemini on its thread (a
\* local variable, gone when the function ends), and how its thread ended
NewTask == [pc |-> "new", att |-> 0, end |-> "none"]

\* one more construction counted
once_more(n) == IF n = 0 THEN 1 ELSE 2

\* _get_semaphore(), run on the event loop
get_semaphore(sem) == IF sem = NoSemaphore THEN NewSemaphore ELSE sem

\* asyncio.Semaphore.locked
locked(sem) == sem.value = 0 \/ sem.waiters # <<>>

\* asyncio.Semaphore._wake_up_next: the first waiter whose future is not done
\* gets the slot and its future is completed
wake_up_next(sem, tk) ==
    LET pending_waiters == {k \in 1..Len(sem.waiters) : tk[sem.waiters[k]].pc = "waiting"} IN
    IF pending_waiters = {} THEN [sem |-> sem, tk |-> tk]
    ELSE LET first == CHOOSE k \in pending_waiters : \A l \in pending_waiters : k <= l
             w == sem.waiters[first]
         IN  [sem |-> [sem EXCEPT !.value = @ - 1],
              tk |-> [tk EXCEPT ![w].pc = "admitted"]]

\* a variant that leaves 'async with' without giving the slot back
release_lost(sem, tk) == [sem |-> sem, tk |-> tk]

\* asyncio.Semaphore.release
release(sem, tk) == wake_up_next([sem EXCEPT !.value = @ + 1], tk)

\* the loop at the end of asyncio.Semaphore.acquire of a woken waiter:
\* while self._value > 0: if not self._wake_up_next(): break
RECURSIVE wake_while_free(_, _)
wake_while_free(sem, tk) ==
    IF sem.value > 0 /\ wake_up_next(sem, tk).sem # sem
    THEN wake_while_free(wake_up_next(sem, tk).sem, wake_up_next(sem, tk).tk)
    ELSE [sem |-> sem, tk |-> tk]

Without(seq, x) == SelectSeq(seq, LAMBDA y : y # x)

\* the threads of the executor that are busy with a call
Busy == {i \in Calls : task[i].pc \in {"configuring", "pending", "sleeping"}}

\* what the function run on the thread ends with, given what call_gemini does
thread_end(fn, out) ==
    IF fn = "call_gemini_json_async" THEN call_gemini_json(out).kind ELSE out.kind

GateInit ==
    /\ entry \in Entries
    /\ task = [i \in Calls |-> NewTask]
    /\ _semaphore = NoSemaphore
    /\ built = [model |-> IF _model = "None" THEN 0 ELSE 1, semaphore |-> 0]

\* call_gemini_async up to its first suspension: _get_semaphore(), then
\* semaphore.acquire() and, when a slot is free, run_in_executor
IssueGated ==
    \E i \in Calls :
        /\ entry = "call_gemini_async"
        /\ task[i].pc = "new"
        /\ \A j \in 1..(i - 1) : task[j].pc # "new"
        /\ LET sem == get_semaphore(_semaphore) IN
             IF ~locked(sem)
             THEN /\ _semaphore' = [sem EXCEPT !.value = @ - 1]
                  /\ task' = [task EXCEPT ![i].pc = "queued"]
             ELSE /\ _semaphore' = [sem EXCEPT !.waiters = Append(@, i)]
                  /\ task' = [task EXCEPT ![i].pc = "waiting"]
        /\ built' = IF _semaphore = NoSemaphore
                    THEN [built EXCEPT !.semaphore = once_more(@)] ELSE built
        /\ UNCHANGED <<entry, clientVars, pipeVars, callVars, fnVars>>

\* call_gemini_json_async up to its suspension: run_in_executor
IssueJson ==
    \E i \in Calls :
        /\ entry = "call_gemini_json_async"
        /\ task[i].pc = "new"
        /\ \A j \in 1..(i - 1) : task[j].pc # "new"
        /\ task' = [task EXCEPT ![i].pc = "queued"]
        /\ UNCHANGED <<entry, _semaphore, built, clientVars, pipeVars, callVars, fnVars>>

\* a waiter that was given a slot resumes in acquire and goes on to
\* run_in_executor
Admitted ==
    \E i \in Calls :
        /\ task[i].pc = "admitted"
        /\ LET after == wake_while_free([_semaphore EXCEPT !.waiters = Without(@, i)], task) IN
             /\ _semaphore' = after.sem
             /\ task' = [after.tk EXCEPT ![i].pc = "queued"]
        /\ UNCHANGED <<entry, built, clientVars, pipeVars, callVars, fnVars>>

\* the executor hands out the queued calls in the order of their submission;
\* a worker thread takes the call and enters _get_model(): with a client at
\* hand the first generate_content is under way; with none and no key the
\* call fails; with none and a key the thread goes on to construct one
ThreadStart ==
    \E i \in Calls :
        /\ task[i].pc = "queued"
        /\ \A j \in 1..(i - 1) : task[j].pc # "queued"
        /\ Cardinality(Busy) < ExecutorWorkers
        /\ IF _model # "None"
           THEN task' = [task EXCEPT ![i].pc = "pending"]
           ELSE IF ~api_key
                THEN task' = [task EXCEPT ![i].pc = "finished", ![i].end = "raise"]
                ELSE task' = [task EXCEPT ![i].pc = "configuring"]
        /\ UNCHANGED <<entry, _semaphore, built, clientVars, pipeVars, callVars, fnVars>>

\* a thread that found _model to be None has constructed the client and
\* assigns it; its first generate_content is under way
ModelBuilt ==
    \E i \in Calls :
        /\ task[i].pc = "configuring"
        /\ _model' = "GenerativeModel"
        /\ built' = [built EXCEPT !.model = once_more(@)]
        /\ task' = [task EXCEPT ![i].pc = "pending"]
        /\ UNCHANGED <<entry, _semaphore, api_key, pipeVars, callVars, fnVars>>

\* generate_content answers or fails, and call_gemini goes on from there
ExternalAnswer ==
    \E i \in Calls, o \in GateOutcomes :
        /\ task[i].pc = "pending"
        /\ LET r == after_attempt(task[i].att, o) IN
             IF r.pc = "sleep"
             THEN task' = [task EXCEPT ![i].pc = "sleeping"]
             ELSE task' = [task EXCEPT ![i] = [pc |-> "finished", att |-> 0,
                                                end |-> thread_end(entry, r.out)]]
        /\ UNCHANGED <<entry, _semaphore, built, clientVars, pipeVars, callVars, fnVars>>

\* time.sleep(wait_time) is over and the next generate_content is under way
BackoffOver ==
    \E i \in Calls :
        /\ task[i].pc = "sleeping"
        /\ task' = [task EXCEPT ![i].pc = "pending", ![i].att = @ + 1]
        /\ UNCHANGED <<entry, _semaphore, built, clientVars, pipeVars, callVars, fnVars>>

\* the awaiting coroutine resumes with the result of the thread; in
\* call_gemini_async it leaves 'async with semaphore', which releases
Resumed ==
    \E i \in Calls :
        /\ task[i].pc = "finished"
        /\ IF entry = "call_gemini_async"
           THEN LET after == release(_semaphore, task) IN
                  /\ _semaphore' = after.sem
                  /\ task' = [after.tk EXCEPT ![i].pc = "done"]
           ELSE /\ _semaphore' = _semaphore
                /\ task' = [task EXCEPT ![i].pc = "done"]
        /\ UNCHANGED <<entry, built, clientVars, pipeVars, callVars, fnVars>>

InitGate == ClientInit /\ GateInit /\ PipeIdle /\ CallIdle /\ FnIdle

NextGate ==
    \/ IssueGated
    \/ IssueJson
    \/ Admitted
    \/ ThreadStart
    \/ ModelBuilt
    \/ ExternalAnswer
    \/ BackoffOver
    \/ Resumed

SpecGate == InitGate /\ [][NextGate]_vars

(***************************************************************************)
(* Properties of concurrent calls.                                         *)
(***************************************************************************)
\* the calls whose generate_content is under way
Pending == {i \in Calls : task[i].pc = "pending"}

\* C6: of the analyzer calls issued concurrently through
\* call_gemini_json_async, at most MAX_CONCURRENT_REQUESTS = 3 have an external
\* model call pending at any time.
C6_AtMostThreePending ==
    entry = "call_gemini_json_async" =>
        Cardinality(Pending) <= MAX_CONCURRENT_REQUESTS

\* C19: the client and the semaphore are each constructed at most once.
C19_InitialisedOnce == built.model <= 1 /\ built.semaphore <= 1

\* the calls that have been admitted and have not yet left 'async with'
Holding ==
    {i \in Calls : task[i].pc \in {"admitted", "queued", "configuring", "pending",
                                   "sleeping", "finished"}}

\* the calls inside call_gemini
InsideCall == {i \in Calls : task[i].pc \in {"configuring", "pending", "sleeping"}}

Waiting == {i \in Calls : task[i].pc = "waiting"}

FreeSlots == IF _semaphore = NoSemaphore THEN MAX_CONCURRENT_REQUESTS ELSE _semaphore.value

\* what holds of the slots at every moment
SlotAccounting ==
    /\ FreeSlots \in 0..MAX_CONCURRENT_REQUESTS
    /\ FreeSlots + Cardinality(Holding) = MAX_CONCURRENT_REQUESTS
    /\ Cardinality(InsideCall) <= MAX_CONCURRENT_REQUESTS
    /\ Waiting # {} => (FreeSlots = 0 \/ \E j \in Calls : task[j].pc = "admitted")
    /\ (\A i \in Calls : task[i].pc = "done") =>
          /\ FreeSlots = MAX_CONCURRENT_REQUESTS
          /\ _semaphore.waiters = <<>>

\* a step in which a call leaves 'async with', by a return or by a raise,
\* hands its slot to a waiting call when there is one
SlotHandedOn ==
    \A i \in Calls :
        (task[i].pc = "finished" /\ task'[i].pc = "done") =>
            /\ i \notin Holding'
            /\ Waiting # {} =>
                  \E w \in Waiting : task'[w].pc = "admitted" /\ FreeSlots' = FreeSlots
            /\ Waiting = {} => FreeSlots' = FreeSlots + 1

\* C21: of the calls through call_gemini_async, each admitted call holds one
\* slot until it leaves 'async with' after call_gemini returned or raised, its
\* backoff waits included: free slots and holders always add up to 3, at most
\* 3 calls are inside call_gemini, a call waits only while no slot is free or
\* a call that was given a slot has yet to resume, a call that finishes
\* (either way) hands its slot to a waiting call or frees it, and when all
\* calls are done all 3 slots are free.
C21_SlotHeld ==
    /\ [](entry = "call_gemini_async" => SlotAccounting)
    /\ [][entry = "call_gemini_async" => SlotHandedOn]_vars

\* three calls inside call_gemini, one of them in a backoff wait, the fourth
\* waiting for a slot
C21_Witness ==
    /\ entry = "call_gemini_async"
    /\ Cardinality(InsideCall) = MAX_CONCURRENT_REQUESTS
    /\ \E i \in Calls : task[i].pc = "sleeping"
    /\ Waiting # {}
    /\ FreeSlots = 0

(***************************************************************************)
(* The functions that keep no state, each called once on its own:          *)
(* detect_intents, detect_intent, _build_instructions_for_intents and      *)
(* call_gemini_json (given what its call_gemini ended with).               *)
(***************************************************************************)
IntentFragments ==
    {"", "hello", "JSON", "Explain", "python code", "compare python", "who", "a story"}

RECURSIVE IntentJoins(_)
IntentJoins(n) ==
    IF n = 0 THEN {""}
    ELSE IF n = 1 THEN IntentFragments
    ELSE {p \o " " \o f : p \in IntentJoins(n - 1), f \in IntentFragments}

IntentTexts == UNION {IntentJoins(n) : n \in 0..MaxIntentFrags}

Labels == {priority_order[i] : i \in 1..Len(priority_order)}

\* the lists of intents given to _build_instructions_for_intents: every set
\* of labels, in priority order
LabelLists == {SelectSeq(priority_order, LAMBDA x : x \in S) : S \in SUBSET Labels}

JsonTexts == {JsonDocuments[d][1] : d \in 1..Len(JsonDocuments)}

\* responses that are a JSON document, bare or in a Markdown fence
WrappedJson ==
    UNION {{doc, " " \o doc \o "\n", Fenced("json", doc), Fenced("", doc),
            FenceMark \o "json" \o doc \o FenceMark,
            "\n" \o Fenced("json", doc) \o "\n"} : doc \in JsonTexts}

\* other responses
OtherTexts ==
    {"", "I cannot answer that.", Fenced("json", "I cannot answer that."),
     Fenced("json", ""), FenceMark, "Here it is: " \o JsonDocuments[1][1],
     Fenced("JSON", JsonDocuments[1][1]), FenceMark \o "json\n" \o JsonDocuments[2][1]}

\* what the call_gemini of call_gemini_json can end with
JsonCallEnds ==
    {Return(r) : r \in WrappedJson \cup OtherTexts}
        \cup {Raise("APIError", e) : e \in ErrorTexts} \cup {NoKeyError}

FnInit ==
    /\ fn_pc = "ready"
    /\ fn_ret = Running
    /\ \/ fn_name \in {"detect_intents", "detect_intent"} /\ fn_arg \in IntentTexts
       \/ fn_name = "_build_instructions_for_intents" /\ fn_arg \in LabelLists
       \/ fn_name = "call_gemini_json" /\ fn_arg \in JsonCallEnds

Call_detect_intents ==
    /\ fn_pc = "ready" /\ fn_name = "detect_intents"
    /\ fn_ret' = Return(detect_intents(fn_arg))
    /\ fn_pc' = "called"
    /\ UNCHANGED <<fn_name, fn_arg, pipeVars, clientVars, callVars, gateVars>>

Call_detect_intent ==
    /\ fn_pc = "ready" /\ fn_name = "detect_intent"
    /\ fn_ret' = Return(detect_intent(fn_arg))
    /\ fn_pc' = "called"
    /\ UNCHANGED <<fn_name, fn_arg, pipeVars, clientVars, callVars, gateVars>>

Call_build_instructions_for_intents ==
    /\ fn_pc = "ready" /\ fn_name = "_build_instructions_for_intents"
    /\ fn_ret' = Return(_build_instructions_for_intents(fn_arg))
    /\ fn_pc' = "called"
    /\ UNCHANGED <<fn_name, fn_arg, pipeVars, clientVars, callVars, gateVars>>

Call_call_gemini_json ==
    /\ fn_pc = "ready" /\ fn_name = "call_gemini_json"
    /\ fn_ret' = call_gemini_json(fn_arg)
    /\ fn_pc' = "called"
    /\ UNCHANGED <<fn_name, fn_arg, pipeVars, clientVars, callVars, gateVars>>

InitFunctions == FnInit /\ ClientInit /\ PipeIdle /\ CallIdle /\ GateIdle

NextFunctions ==
    \/ Call_detect_intents
    \/ Call_detect_intent
    \/ Call_build_instructions_for_intents
    \/ Call_call_gemini_json

SpecFunctions == InitFunctions /\ [][NextFunctions]_vars

(***************************************************************************)
(* Properties of the intent classifier and the instruction builder.        *)
(***************************************************************************)
FnCalled(fn) == fn_pc = "called" /\ fn_name = fn

\* the text holds a keyword of the list, letter case ignored
MatchesIgnoringCase(keywords, text) ==
    \E k \in 1..Len(keywords) : lower(keywords[k]) \in Substrings(lower(text))

\* C11: detect_intents returns the label of a keyword list exactly when the
\* text holds, letter case ignored, a keyword of that list, and returns
\* [general] exactly when no list has such a keyword.
C11_LabelIffKeyword ==
    FnCalled("detect_intents") =>
        /\ \A k \in 1..Len(intent_keywords) :
              InSeq(intent_keywords[k][1], fn_ret.value)
                  <=> MatchesIgnoringCase(intent_keywords[k][2], fn_arg)
        /\ fn_ret.value = <<"general">>
              <=> \A k \in 1..Len(intent_keywords) :
                      ~MatchesIgnoringCase(intent_keywords[k][2], fn_arg)

\* the priority order of the labels, highest first
PriorityOfLabels ==
    <<"comparison", "coding", "analysis", "tutorial", "explanation", "research",
      "summarization", "creative", "instruction", "question", "problem_solving",
      "general">>

Rank(label) == CHOOSE i \in 1..Len(PriorityOfLabels) : PriorityOfLabels[i] = label

Elements(seq) == {seq[i] : i \in 1..Len(seq)}

\* C12: the labels detect_intents returns are labels of the priority order, in
\* strictly rising rank (so sorted and free of duplicates); detect_intent
\* returns the first of them, a member of the label set, and 'comparison' when
\* the labels are question, coding and comparison.
C12_PriorityOrder ==
    /\ FnCalled("detect_intents") =>
          /\ fn_ret.value # <<>>
          /\ Elements(fn_ret.value) \subseteq Elements(PriorityOfLabels)
          /\ \A i, j \in 1..Len(fn_ret.value) :
                i < j => Rank(fn_ret.value[i]) < Rank(fn_ret.value[j])
    /\ FnCalled("detect_intent") =>
          LET labels == detect_intents(fn_arg) IN
            /\ fn_ret.value = labels[1]
            /\ fn_ret.value \in Elements(labels)
            /\ \A l \in Elements(labels) : Rank(fn_ret.value) <= Rank(l)
            /\ Elements(labels) = {"question", "coding", "comparison"}
                  => fn_ret.value = "comparison"

\* the primary label of a text with the labels question, coding and comparison
C12_Witness ==
    /\ FnCalled("detect_intent")
    /\ Elements(detect_intents(fn_arg)) = {"question", "coding", "comparison"}
    /\ fn_ret.value = "comparison"

\* the instruction of each label that has one
InstructionOf ==
    [explanation |-> "Explain clearly in structured bullet points.",
     comparison |-> "Present the comparison in a table covering key differences and similarities.",
     coding |-> "Provide clean, well-commented code and explain the logic.",
     analysis |-> "Include analytical insights, pros, cons, and evaluation.",
     summarization |-> "Provide a concise summary highlighting key ideas.",
     tutorial |-> "Present the explanation step-by-step like a tutorial.",
     creative |-> "Use engaging and vivid language."]

DefaultInstruction == "Provide a clear and detailed response."

\* the labels of a list that contribute an instruction
Contributing(intents) ==
    {l \in DOMAIN InstructionOf :
        /\ l \in Elements(intents)
        /\ l = "creative" => "coding" \notin Elements(intents)}

\* C13: the instructions built for a list of labels are exactly those of the
\* labels present that have one, the creative one only when coding is absent,
\* each once; when there is none, the list is the default instruction alone;
\* the list is never empty.
C13_InstructionMapping ==
    FnCalled("_build_instructions_for_intents") =>
        LET given == Contributing(fn_arg) IN
          /\ fn_ret.value # <<>>
          /\ given # {} =>
                /\ Elements(fn_ret.value) = {InstructionOf[l] : l \in given}
                /\ Len(fn_ret.value) = Cardinality(given)
          /\ given = {} => fn_ret.value = <<DefaultInstruction>>

\* coding and creative both present: the coding instruction without the
\* creative one
C13_Witness ==
    /\ FnCalled("_build_instructions_for_intents")
    /\ {"coding", "creative"} \subseteq Elements(fn_arg)
    /\ InstructionOf["coding"] \in Elements(fn_ret.value)
    /\ InstructionOf["creative"] \notin Elements(fn_ret.value)

(***************************************************************************)
(* Further properties of the strict-mode run.                              *)
(***************************************************************************)
\* the request is empty or made of white space only
EmptyRequest == strip(request) = ""

C16_FailurePropagates ==
    \A i \in 1..Len(calls) :
        calls[i].ret.kind = "raise" =>
            /\ calls[i].fn \in {"needs_context", "is_ambiguous",
                                "llm_rewrite_prompt", "decompose_prompt"}
            /\ i = Len(calls)
            /\ pc = "Raised"
            /\ stages[Len(stages)] = "Raised"
            /\ stages[Len(stages) - 1] = StageOrder[StageOfCall[calls[i].fn]]
            /\ outcome = calls[i].ret
            /\ outcome.kind # "return"

\* the decomposer got a response that does not parse, after a rewrite
C16_Witness ==
    /\ pc = "Raised"
    /\ Made("llm_rewrite_prompt")
    /\ calls[Len(calls)].fn = "decompose_prompt"
    /\ outcome.kind = "raise"
    /\ outcome.value.type = "JSONDecodeError"

\* the bullet list of a list of instructions
RECURSIVE Bullets(_)
Bullets(instructions) ==
    IF instructions = <<>> THEN ""
    ELSE "- " \o instructions[1]
         \o (IF Len(instructions) > 1 THEN "\n" ELSE "")
         \o Bullets(Tail(instructions))

\* the blocks of the first n sub-tasks, one after the other
RECURSIVE Blocks(_)
Blocks(n) ==
    IF n = 0 THEN ""
    ELSE Blocks(n - 1)
         \o "Sub-Task: " \o subtasks[n] \o "\n"
         \o "Instructions:\n"
         \o Bullets(_build_instructions_for_intents(CallsOf("detect_intents")[n].ret.value))
         \o "\n\n"

\* C17: the output of a run that went through Assembly is the marker line
\* exactly when the rewrite was invoked, followed by one block for each
\* sub-task in the order of the decomposition, each with the sub-task text and
\* the bullets of its instructions.
C17_OutputFormat ==
    (pc = "Done" /\ Entered("Assembly")) =>
        /\ Len(CallsOf("detect_intents")) = Len(subtasks)
        /\ outcome = Return((IF Made("llm_rewrite_prompt")
                             THEN "[LLM Rewrite Triggered]\n\n" ELSE "")
                            \o Blocks(Len(subtasks)))

\* a rewritten run with two sub-tasks is done
C17_Witness ==
    /\ pc = "Done" /\ Entered("Assembly")
    /\ Made("llm_rewrite_prompt")
    /\ Len(subtasks) = 2
    /\ startswith(outcome.value, "[LLM Rewrite Triggered]\n\nSub-Task: Explain the list.\nInstructions:\n- ")

\* the run attached the prior context to the request
Attached == ContextSupplied /\ ContextFlagged

\* C20: in a run that attached the prior context, the text scored has a total
\* of at least 6, the run does not return the 'unclear or too vague' message
\* and the rewrite is not invoked.
C20_AugmentedScore ==
    Attached =>
        /\ \A i \in 1..Len(calls) :
              calls[i].fn = "score_prompt" => calls[i].ret.value.total_score >= 6
        /\ outcome # Return(VagueMessage)
        /\ ~Made("llm_rewrite_prompt")
        /\ pc \notin {"ContextCheck", "Scoring"} => ~llm_triggered

\* a request with a vague word and an attached context scored exactly 6 and
\* went on to the decomposer without a rewrite
C20_Witness ==
    /\ Attached
    /\ Made("score_prompt")
    /\ score_data.total_score = 6
    /\ Made("decompose_prompt")
    /\ ~Made("llm_rewrite_prompt")

(***************************************************************************)
(* Properties of call_gemini_json.                                         *)
(***************************************************************************)
\* the value of a JSON document
ValueOf(doc) ==
    JsonDocuments[CHOOSE d \in 1..Len(JsonDocuments) : JsonDocuments[d][1] = doc][2]

\* the forms of response the parsed value is promised for: the document bare,
\* or between a leading marker, with or without the json tag, and a trailing one
Promised(doc) ==
    {doc,
     FenceMark \o "json" \o "\n" \o doc \o "\n" \o FenceMark,
     FenceMark \o "\n" \o doc \o "\n" \o FenceMark,
     FenceMark \o "json" \o doc \o FenceMark}

\* C15: for a response that is a JSON document, bare or between a leading
\* marker (with or without the json tag) and a trailing marker, call_gemini_json
\* returns the value of the document; whatever it returns is the value of a
\* document that stands in the response; when the text left after the
\* stripping is no JSON document it raises the parse error of json.loads; a
\* failure of call_gemini is passed on.
C15_JsonParsing ==
    FnCalled("call_gemini_json") =>
        /\ fn_arg.kind = "raise" => fn_ret = fn_arg
        /\ fn_arg.kind = "return" =>
              /\ \A doc \in JsonTexts :
                    fn_arg.value \in Promised(doc) => fn_ret = Return(ValueOf(doc))
              /\ fn_ret.kind = "return" =>
                    \E doc \in JsonTexts :
                        /\ Contains(doc, fn_arg.value)
                        /\ fn_ret.value = ValueOf(doc)
              /\ ~IsJson(clean_response(fn_arg.value)) =>
                    /\ fn_ret.kind = "raise"
                    /\ fn_ret.value.type = "JSONDecodeError"

\* a document in a fence with the json tag was parsed
C15_Witness ==
    /\ FnCalled("call_gemini_json")
    /\ fn_arg = Return(Fenced("json", JsonDocuments[6][1]))
    /\ fn_ret = Return(JsonDocuments[6][2])

====
